---- MODULE Spec2Model ----
(***************************************************************************)
(* HealthPass: patients, prescriptions, pickup-code/QR issuance, dispense  *)
(* and the audit log, as run by several instances of the program against   *)
(* one PostgreSQL store.  Every repository call is one db_cursor           *)
(* transaction, so one repository call is one atomic step of an instance;  *)
(* the steps of different instances interleave freely.                     *)
(***************************************************************************)
EXTENDS Integers, Sequences, FiniteSets, TLC

(***************************************************************************)
(* Bounds of the model.                                                    *)
(***************************************************************************)
MaxCmds == 2      \* commands started in one run, over all instances
MaxTime == 1      \* the wall clock runs over 0..MaxTime
MaxFaults == 1    \* store transactions that fail for a transport reason

Procs == {1, 2}                     \* concurrently running instances
Codes == {"K1", "K2"}               \* values generate_pickup_code can draw
HealthCards == {<<"A">>, <<"1", "A">>}  \* health card numbers typed in
DaysValid == {-1, 1}                \* days_valid typed in (any integer)
RxIds == 1 .. 2                     \* prescription ids typed in

(***************************************************************************)
(* Optional values: None is Python's None / SQL NULL, Some(v) a value.     *)
(***************************************************************************)
None == <<>>
Some(v) == <<v>>
Val(o) == o[1]

(***************************************************************************)
(* repositories._hcn_to_hex / _hcn_from_hex over the characters in use.    *)
(***************************************************************************)
HexOfChar(c) == IF c = "A" THEN <<"4", "1">> ELSE <<"3", "1">>

RECURSIVE _hcn_to_hex(_)
_hcn_to_hex(hcn) ==
    IF hcn = <<>> THEN <<>>
    ELSE HexOfChar(Head(hcn)) \o _hcn_to_hex(Tail(hcn))

CharOfHex(hi, lo) == IF hi = "4" /\ lo = "1" THEN "A" ELSE "1"

RECURSIVE _hcn_from_hex(_)
_hcn_from_hex(h) ==
    IF Len(h) < 2 THEN <<>>
    ELSE <<CharOfHex(h[1], h[2])>> \o _hcn_from_hex(SubSeq(h, 3, Len(h)))

(***************************************************************************)
(* State.                                                                  *)
(***************************************************************************)
VARIABLES
    patients,       \* table patients: id -> row
    prescriptions,  \* table prescriptions: id -> row
    audit_log,      \* table audit_log: sequence of rows, in id order
    patientSeq,     \* next value of patients.id (SERIAL)
    rxSeq,          \* next value of prescriptions.id (SERIAL)
    files,          \* QR image files on disk: set of paths
    csv,            \* the CSV report file: None, or the rows last exported
    fetches,        \* GET requests to the QR endpoint per prescription id: sent, failed
    now,            \* the wall clock (UTC) when it was last read
    pc,             \* per instance: the statement it is at
    local,          \* per instance: arguments and locals of its command
    outcome,        \* per instance: how its last command ended
    result,         \* per instance: value returned by its last issuance call
    cmds,           \* commands started so far
    faults,         \* transport faults that have happened so far
    overlap,        \* history: issuance calls for this id have run concurrently
    firstCall,      \* history: how the first issuance call for this id went
    returned,       \* history: pairs returned by issuance calls for this id
    stored          \* history: pickup codes ever stored in this row

vars == <<patients, prescriptions, audit_log, patientSeq, rxSeq, files, csv, fetches,
          now, pc, local, outcome, result, cmds, faults,
          overlap, firstCall, returned, stored>>

store == <<patients, prescriptions, audit_log, patientSeq, rxSeq>>
world == <<files, csv, fetches>>
hist == <<overlap, firstCall, returned, stored>>

NoLocal == [hcn |-> <<>>, rx |-> 0, code |-> None, patient_id |-> 0, p |-> None,
            first |-> FALSE, rows |-> <<>>,
            kind |-> "", patient |-> None, qr_path |-> None]

(***************************************************************************)
(* Rows.                                                                   *)
(***************************************************************************)
PatientRow(hcn, phone, email) ==
    [health_card_no |-> _hcn_to_hex(hcn), phone |-> phone, email |-> email]

PrescriptionRow(patient_id, status, pickup_code, expires_at, at) ==
    [patient_id |-> patient_id, status |-> status, pickup_code |-> pickup_code,
     pickup_qr_path |-> None, expires_at |-> expires_at, created_at |-> at,
     picked_up_at |-> None]

AuditRow(event_type, payload) == [event_type |-> event_type, payload |-> payload]

(***************************************************************************)
(* out_dir / f"prescription_{prescription_id}_{pickup_code}.png"           *)
(***************************************************************************)
QrPath(id, code) == <<"qr_codes", id, code>>

(***************************************************************************)
(* The store on startup.  init_schema creates the tables only if they do   *)
(* not exist, so a session starts on what earlier sessions left:           *)
(*   "empty"   nothing;                                                    *)
(*   "created" a patient with one ACTIVE prescription, no pickup code yet; *)
(*   "issued"  the same after one issuance call for that prescription;     *)
(*   "dispensed" two issued prescriptions, the first of them dispensed.    *)
(* The prescription has an expiry (prescription_service) or none           *)
(* (models.Prescription.expires_at defaults to None, the column is         *)
(* nullable).                                                              *)
(***************************************************************************)
SeedExpiry == {None, Some(0)}

SeedAudit ==
    <<AuditRow("PATIENT_CREATED", [patient_id |-> 1, hcn |-> <<"A">>]),
      AuditRow("RX_CREATED", [prescription_id |-> 1, patient_id |-> 1])>>

InitEmpty ==
    /\ patients = <<>>
    /\ prescriptions = <<>>
    /\ audit_log = <<>>
    /\ patientSeq = 1
    /\ rxSeq = 1
    /\ files = {}
    /\ fetches = [r \in RxIds |-> [sent |-> 0, failed |-> 0]]
    /\ firstCall = [r \in RxIds |-> "none"]
    /\ returned = [r \in RxIds |-> {}]
    /\ stored = [r \in RxIds |-> {}]

InitCreated ==
    \E e \in SeedExpiry :
        /\ patients = (1 :> PatientRow(<<"A">>, None, None))
        /\ prescriptions = (1 :> PrescriptionRow(1, "ACTIVE", None, e, 0))
        /\ audit_log = SeedAudit
        /\ patientSeq = 2
        /\ rxSeq = 2
        /\ files = {}
        /\ fetches = [r \in RxIds |-> [sent |-> 0, failed |-> 0]]
        /\ firstCall = [r \in RxIds |-> "none"]
        /\ returned = [r \in RxIds |-> {}]
        /\ stored = [r \in RxIds |-> {}]

InitIssued ==
    \E e \in SeedExpiry :
        /\ patients = (1 :> PatientRow(<<"A">>, None, None))
        /\ prescriptions =
              (1 :> [PrescriptionRow(1, "ACTIVE", None, e, 0) EXCEPT
                        !.pickup_code = Some("K1"),
                        !.pickup_qr_path = Some(QrPath(1, "K1"))])
        /\ audit_log = Append(SeedAudit, AuditRow("QR_GENERATED",
              [prescription_id |-> 1, pickup_code |-> "K1", path |-> QrPath(1, "K1")]))
        /\ patientSeq = 2
        /\ rxSeq = 2
        /\ files = {QrPath(1, "K1")}
        /\ fetches = [r \in RxIds |-> [sent |-> IF r = 1 THEN 1 ELSE 0, failed |-> 0]]
        /\ firstCall = [r \in RxIds |-> IF r = 1 THEN "ok" ELSE "none"]
        /\ returned = [r \in RxIds |-> IF r = 1 THEN {<<"K1", QrPath(1, "K1")>>} ELSE {}]
        /\ stored = [r \in RxIds |-> IF r = 1 THEN {"K1"} ELSE {}]

InitDispensed ==
    /\ patients = (1 :> PatientRow(<<"A">>, None, None))
    /\ prescriptions =
          (1 :> [PrescriptionRow(1, "DISPENSED", Some("K1"), None, 0) EXCEPT
                    !.pickup_qr_path = Some(QrPath(1, "K1")),
                    !.picked_up_at = Some(0)])
          @@ (2 :> [PrescriptionRow(1, "ACTIVE", Some("K2"), None, 0) EXCEPT
                    !.pickup_qr_path = Some(QrPath(2, "K2"))])
    /\ audit_log = SeedAudit \o
          <<AuditRow("RX_CREATED", [prescription_id |-> 2, patient_id |-> 1]),
            AuditRow("QR_GENERATED",
                [prescription_id |-> 1, pickup_code |-> "K1", path |-> QrPath(1, "K1")]),
            AuditRow("QR_GENERATED",
                [prescription_id |-> 2, pickup_code |-> "K2", path |-> QrPath(2, "K2")]),
            AuditRow("RX_DISPENSED", [prescription_id |-> 1, pickup_code |-> "K1"])>>
    /\ patientSeq = 2
    /\ rxSeq = 3
    /\ files = {QrPath(1, "K1"), QrPath(2, "K2")}
    /\ fetches = [r \in RxIds |-> [sent |-> 1, failed |-> 0]]
    /\ firstCall = [r \in RxIds |-> "ok"]
    /\ returned = [r \in RxIds |-> {<<IF r = 1 THEN "K1" ELSE "K2",
                                       QrPath(r, IF r = 1 THEN "K1" ELSE "K2")>>}]
    /\ stored = [r \in RxIds |-> {IF r = 1 THEN "K1" ELSE "K2"}]

\* Every instance at its menu, nothing run yet.
InitIdle ==
    /\ csv = None
    /\ now = 0
    /\ pc = [i \in Procs |-> "menu"]
    /\ local = [i \in Procs |-> NoLocal]
    /\ outcome = [i \in Procs |-> "none"]
    /\ result = [i \in Procs |-> None]
    /\ cmds = 0
    /\ faults = 0
    /\ overlap = [r \in RxIds |-> FALSE]

Init ==
    /\ InitEmpty \/ InitCreated \/ InitIssued \/ InitDispensed
    /\ InitIdle

(***************************************************************************)
(* The wall clock, datetime.now(timezone.utc) and the store's NOW(): a     *)
(* reading is not earlier than the reading before it.                      *)
(***************************************************************************)
ReadClock(t) == t \in now .. MaxTime /\ now' = t

(***************************************************************************)
(* Control of one instance.  Begin: a menu action builds a command and     *)
(* calls execute().  Goto: the command goes on to its next repository      *)
(* call.  Return / Raise: execute() returns, or raises and the menu action *)
(* prints the error; either way the instance is back at its menu.  An      *)
(* argument that only one later statement of the command reads is drawn at *)
(* that statement.                                                         *)
(***************************************************************************)
Begin(i, at, args) ==
    /\ pc[i] = "menu"
    /\ cmds < MaxCmds
    /\ cmds' = cmds + 1
    /\ pc' = [pc EXCEPT ![i] = at]
    /\ local' = [local EXCEPT ![i] = args]
    /\ outcome' = [outcome EXCEPT ![i] = "running"]
    /\ result' = [result EXCEPT ![i] = None]
    /\ UNCHANGED <<store, world, now, faults>>

Goto(i, at, args) ==
    /\ pc' = [pc EXCEPT ![i] = at]
    /\ local' = [local EXCEPT ![i] = args]
    /\ UNCHANGED <<outcome, result, cmds>>

Return(i, value) ==
    /\ pc' = [pc EXCEPT ![i] = "menu"]
    /\ local' = [local EXCEPT ![i] = NoLocal]
    /\ outcome' = [outcome EXCEPT ![i] = "ok"]
    /\ result' = [result EXCEPT ![i] = value]
    /\ UNCHANGED cmds

Raise(i, error) ==
    /\ pc' = [pc EXCEPT ![i] = "menu"]
    /\ local' = [local EXCEPT ![i] = NoLocal]
    /\ outcome' = [outcome EXCEPT ![i] = error]
    /\ UNCHANGED <<result, cmds>>

\* An error that no except clause of the menu action catches: it leaves the
\* action, the menu loops and the program; the process has terminated.
Uncaught(i, error) ==
    /\ pc' = [pc EXCEPT ![i] = "terminated"]
    /\ local' = [local EXCEPT ![i] = NoLocal]
    /\ outcome' = [outcome EXCEPT ![i] = error]
    /\ UNCHANGED <<result, cmds>>

(***************************************************************************)
(* db.db_cursor: the body runs in its own transaction.  A transaction that *)
(* cannot connect, execute or commit is rolled back and the error is       *)
(* re-raised: nothing it wrote is kept.                                    *)
(***************************************************************************)
DbFault(i) ==
    /\ faults < MaxFaults
    /\ faults' = faults + 1
    /\ Raise(i, "db_error")
    /\ UNCHANGED <<store, world, now>>

\* The same in a repository call that the menu action makes outside a try.
DbFaultUncaught(i) ==
    /\ faults < MaxFaults
    /\ faults' = faults + 1
    /\ Uncaught(i, "db_error")
    /\ UNCHANGED <<store, world, now>>

(***************************************************************************)
(* AuditRepo.record_event: one INSERT into audit_log.                      *)
(***************************************************************************)
record_event(log, event_type, payload) == Append(log, AuditRow(event_type, payload))

Events(event_type) ==
    {k \in 1 .. Len(audit_log) : audit_log[k].event_type = event_type}

(***************************************************************************)
(* PatientRepo.                                                            *)
(***************************************************************************)
get_by_health_card(tbl, hcn) ==
    LET hits == {id \in DOMAIN tbl : tbl[id].health_card_no = _hcn_to_hex(hcn)}
    IN  IF hits = {} THEN None ELSE Some(CHOOSE id \in hits : TRUE)

\* Mutant: the column is not UNIQUE.
HealthCardTaken_Never(tbl, hcn) == FALSE

\* UNIQUE (health_card_no): the INSERT of a second row with the value fails.
HealthCardTaken(tbl, hcn) ==
    \E id \in DOMAIN tbl : tbl[id].health_card_no = _hcn_to_hex(hcn)

PatientRepo_create(tbl, id, hcn, contact) ==
    (id :> PatientRow(hcn, contact.phone, contact.email)) @@ tbl

Contacts == {[phone |-> None, email |-> None],
             [phone |-> None, email |-> Some("e")]}

(***************************************************************************)
(* AddPatientCommand.execute -> register_patient -> PatientRepo.create,    *)
(* then the PATIENT_CREATED audit entry.                                   *)
(***************************************************************************)
AddPatient(i) ==
    /\ \E hcn \in HealthCards : Begin(i, "ap_lookup", [NoLocal EXCEPT !.hcn = hcn])
    /\ UNCHANGED hist

\* register_patient, lines 15-17: the lookup and the duplicate check.
RegisterLookup(i) ==
    /\ pc[i] = "ap_lookup"
    /\ UNCHANGED hist
    /\ \/ DbFault(i)
       \/ /\ IF get_by_health_card(patients, local[i].hcn) # None
             THEN Raise(i, "duplicate")
             ELSE Goto(i, "ap_insert", local[i])
          /\ UNCHANGED <<store, world, now, faults>>

\* register_patient, line 27: PatientRepo.create.
RegisterInsert(i) ==
    /\ pc[i] = "ap_insert"
    /\ UNCHANGED hist
    /\ \/ DbFault(i)
       \/ /\ IF HealthCardTaken(patients, local[i].hcn)
             THEN /\ Raise(i, "unique_violation")
                  /\ UNCHANGED patients
             ELSE \E contact \in Contacts :
                  /\ patients' = PatientRepo_create(patients, patientSeq,
                                     local[i].hcn, contact)
                  /\ Goto(i, "ap_audit", [local[i] EXCEPT !.patient_id = patientSeq])
          /\ patientSeq' = patientSeq + 1
          /\ UNCHANGED <<prescriptions, audit_log, rxSeq, world, now, faults>>

AddPatientAudit(i) ==
    /\ pc[i] = "ap_audit"
    /\ UNCHANGED hist
    /\ \/ DbFault(i)
       \/ /\ audit_log' = record_event(audit_log, "PATIENT_CREATED",
                 [patient_id |-> local[i].patient_id, hcn |-> local[i].hcn])
          /\ Return(i, None)
          /\ UNCHANGED <<patients, prescriptions, patientSeq, rxSeq, world, now, faults>>

(***************************************************************************)
(* NewPrescriptionCommand.execute -> create_prescription_for_patient ->    *)
(* PrescriptionRepo.create, then the RX_CREATED audit entry.               *)
(***************************************************************************)
\* create_prescription_for_patient: ACTIVE, no pickup code, expiry from now.
create_prescription_for_patient(patient_id, days_valid, now_utc) ==
    PrescriptionRow(patient_id, "ACTIVE", None, Some(now_utc + days_valid), now_utc)

PrescriptionRepo_create(tbl, id, row) == (id :> row) @@ tbl

NewPrescription(i) ==
    /\ \E hcn \in HealthCards : Begin(i, "rx_lookup", [NoLocal EXCEPT !.hcn = hcn])
    /\ UNCHANGED hist

\* lines 71-73: the patient lookup.
NewPrescriptionLookup(i) ==
    /\ pc[i] = "rx_lookup"
    /\ UNCHANGED hist
    /\ \/ DbFault(i)
       \/ /\ LET patient == get_by_health_card(patients, local[i].hcn)
             IN  IF patient = None
                 THEN Raise(i, "no_patient")
                 ELSE Goto(i, "rx_insert", [local[i] EXCEPT !.patient_id = Val(patient)])
          /\ UNCHANGED <<store, world, now, faults>>

\* lines 74-80: the expiry is computed and the row inserted.
NewPrescriptionInsert(i) ==
    /\ pc[i] = "rx_insert"
    /\ rxSeq \in RxIds
    /\ UNCHANGED hist
    /\ \/ DbFault(i)
       \/ /\ \E t \in now .. MaxTime, days \in DaysValid :
                /\ ReadClock(t)
                /\ prescriptions' = PrescriptionRepo_create(prescriptions, rxSeq,
                      create_prescription_for_patient(local[i].patient_id, days, t))
          /\ rxSeq' = rxSeq + 1
          /\ Goto(i, "rx_audit", [local[i] EXCEPT !.rx = rxSeq])
          /\ UNCHANGED <<patients, audit_log, patientSeq, world, faults>>

NewPrescriptionAudit(i) ==
    /\ pc[i] = "rx_audit"
    /\ UNCHANGED hist
    /\ \/ DbFault(i)
       \/ /\ audit_log' = record_event(audit_log, "RX_CREATED",
                 [prescription_id |-> local[i].rx, patient_id |-> local[i].patient_id])
          /\ Return(i, None)
          /\ UNCHANGED <<patients, prescriptions, patientSeq, rxSeq, world, now, faults>>

(***************************************************************************)
(* PrescriptionRepo: the pickup code and the QR path.                      *)
(***************************************************************************)
\* Mutant: the SELECT finds no row.
get_pickup_code_by_id_NoRow(tbl, id) == None

\* SELECT pickup_code, pickup_qr_path WHERE id: None when there is no row.
get_pickup_code_by_id(tbl, id) ==
    IF id \in DOMAIN tbl
    THEN Some(<<tbl[id].pickup_code, tbl[id].pickup_qr_path>>)
    ELSE None

\* Mutant: the column is not UNIQUE.
PickupCodeTaken_Never(tbl, id, code) == FALSE

\* UNIQUE (pickup_code): the UPDATE fails when another row holds the code.
PickupCodeTaken(tbl, id, code) ==
    /\ id \in DOMAIN tbl
    /\ \E other \in DOMAIN tbl : other # id /\ tbl[other].pickup_code = Some(code)

\* Mutant: the UPDATE sets the code and leaves the path.
update_pickup_qr_CodeOnly(tbl, id, code, path) ==
    IF id \in DOMAIN tbl
    THEN [tbl EXCEPT ![id].pickup_code = Some(code)]
    ELSE tbl

\* UPDATE ... SET pickup_code, pickup_qr_path WHERE id: no row, no change.
update_pickup_qr(tbl, id, code, path) ==
    IF id \in DOMAIN tbl
    THEN [tbl EXCEPT ![id].pickup_code = Some(code), ![id].pickup_qr_path = Some(path)]
    ELSE tbl

\* Mutant: the fast path is never taken.
HasPickup_Never(existing) == FALSE

\* ensure_pickup_code_and_qr, "if code and path": both set and non-empty.
HasPickup(existing) ==
    /\ existing # None
    /\ Val(existing)[1] # None
    /\ Val(existing)[2] # None

(***************************************************************************)
(* GeneratePickupQRCommand.execute -> ensure_pickup_code_and_qr.           *)
(***************************************************************************)
QrPcs == {"qr_read", "qr_fetch", "qr_update", "qr_audit"}

Issuing(i, id) == pc[i] \in QrPcs /\ local[i].rx = id

\* History: a call for id begins; it overlaps a call for id that is running.
BeginIssue(i, id) ==
    overlap' = [overlap EXCEPT ![id] = @ \/ \E j \in Procs \ {i} : Issuing(j, id)]

\* History: a call for id ends, ok with its pair when it returns one for a
\* row that existed when the call read it.
EndIssue(id, first, ok, pair) ==
    /\ firstCall' = [firstCall EXCEPT ![id] =
            IF first THEN (IF ok THEN "ok" ELSE "other") ELSE @]
    /\ returned' = [returned EXCEPT ![id] = IF ok THEN @ \cup {pair} ELSE @]

GeneratePickupQR(i) ==
    /\ \E id \in RxIds :
        /\ Begin(i, "qr_read",
                 [NoLocal EXCEPT !.rx = id, !.first = (firstCall[id] = "none")])
        /\ BeginIssue(i, id)
        /\ firstCall' = [firstCall EXCEPT ![id] = IF @ = "none" THEN "running" ELSE @]
    /\ UNCHANGED <<returned, stored>>

\* lines 27-31: the read and the fast path.
IssueRead(i) ==
    /\ pc[i] = "qr_read"
    /\ UNCHANGED <<overlap, stored>>
    /\ LET id == local[i].rx
           existing == get_pickup_code_by_id(prescriptions, id)
       IN  \/ /\ DbFault(i)
              /\ EndIssue(id, local[i].first, FALSE, None)
           \/ /\ IF HasPickup(existing)
                 THEN LET pair == <<Val(Val(existing)[1]), Val(Val(existing)[2])>>
                      IN  /\ Return(i, Some(pair))
                          /\ EndIssue(id, local[i].first, TRUE, pair)
                 ELSE /\ Goto(i, "qr_fetch", [local[i] EXCEPT !.p = existing])
                      /\ UNCHANGED <<firstCall, returned>>
              /\ UNCHANGED <<store, world, now, faults>>

\* What the QR endpoint can answer: an image, an error status, nothing in time.
Responses == {"200", "500", "timeout"}

\* Mutant: raise_for_status is left out, only a transport error raises.
FetchFails_NoStatusCheck(resp) == resp = "timeout"

\* requests.get raises on a transport error or timeout, raise_for_status on a
\* status that is not a success.
FetchFails(resp) == resp # "200"

\* lines 34-46: the code, the GET, raise_for_status, the image written to disk.
IssueFetch(i) ==
    /\ pc[i] = "qr_fetch"
    /\ \E pickup_code \in Codes, resp \in Responses :
        /\ fetches' = [fetches EXCEPT ![local[i].rx] =
                [sent |-> @.sent + 1,
                 failed |-> @.failed + (IF resp = "200" THEN 0 ELSE 1)]]
        /\ IF FetchFails(resp)
           THEN /\ Raise(i, "qr_failed")
                /\ EndIssue(local[i].rx, local[i].first, FALSE, None)
                /\ UNCHANGED files
           ELSE /\ files' = files \cup {QrPath(local[i].rx, pickup_code)}
                /\ Goto(i, "qr_update", [local[i] EXCEPT !.code = Some(pickup_code)])
                /\ UNCHANGED <<firstCall, returned>>
    /\ UNCHANGED <<store, csv, now, faults, overlap, stored>>

\* lines 48-52: PrescriptionRepo.update_pickup_qr.
IssueUpdate(i) ==
    /\ pc[i] = "qr_update"
    /\ UNCHANGED overlap
    /\ LET id == local[i].rx
           code == Val(local[i].code)
       IN  \/ /\ DbFault(i)
              /\ EndIssue(id, local[i].first, FALSE, None)
              /\ UNCHANGED stored
           \/ /\ IF PickupCodeTaken(prescriptions, id, code)
                 THEN /\ Raise(i, "unique_violation")
                      /\ EndIssue(id, local[i].first, FALSE, None)
                      /\ UNCHANGED <<prescriptions, stored>>
                 ELSE /\ prescriptions' =
                            update_pickup_qr(prescriptions, id, code, QrPath(id, code))
                      /\ stored' = [stored EXCEPT ![id] =
                            IF id \in DOMAIN prescriptions THEN @ \cup {code} ELSE @]
                      /\ Goto(i, "qr_audit", local[i])
                      /\ UNCHANGED <<firstCall, returned>>
              /\ UNCHANGED <<patients, audit_log, patientSeq, rxSeq, world, now, faults>>

\* lines 54-59: the QR_GENERATED audit entry and the returned pair.
IssueAudit(i) ==
    /\ pc[i] = "qr_audit"
    /\ UNCHANGED <<overlap, stored>>
    /\ LET id == local[i].rx
           code == Val(local[i].code)
       IN  \/ /\ DbFault(i)
              /\ EndIssue(id, local[i].first, FALSE, None)
           \/ /\ audit_log' = record_event(audit_log, "QR_GENERATED",
                     [prescription_id |-> id, pickup_code |-> code,
                      path |-> QrPath(id, code)])
              /\ Return(i, Some(<<code, QrPath(id, code)>>))
              /\ EndIssue(id, local[i].first, local[i].p # None, <<code, QrPath(id, code)>>)
              /\ UNCHANGED <<patients, prescriptions, patientSeq, rxSeq, world, now, faults>>

(***************************************************************************)
(* PrescriptionRepo: lookup by pickup code and the dispense update.        *)
(***************************************************************************)
\* Mutant: the SELECT has no WHERE clause and returns the first row.
get_by_pickup_code_AnyRow(tbl, code) ==
    IF DOMAIN tbl = {} THEN None
    ELSE LET id == CHOOSE id \in DOMAIN tbl : \A other \in DOMAIN tbl : id <= other
         IN  Some([id |-> id, status |-> tbl[id].status,
                   expires_at |-> tbl[id].expires_at])

\* SELECT ... WHERE pickup_code = code: the row with its id, or None.
get_by_pickup_code(tbl, code) ==
    LET hits == {id \in DOMAIN tbl : tbl[id].pickup_code = Some(code)}
    IN  IF hits = {} THEN None
        ELSE LET id == CHOOSE id \in hits : TRUE
             IN  Some([id |-> id, status |-> tbl[id].status,
                       expires_at |-> tbl[id].expires_at])

\* Mutant: the UPDATE sets the status and leaves picked_up_at.
mark_dispensed_StatusOnly(tbl, id, at) ==
    IF id \in DOMAIN tbl
    THEN [tbl EXCEPT ![id].status = "DISPENSED"]
    ELSE tbl

\* UPDATE ... SET status = 'DISPENSED', picked_up_at = NOW() WHERE id.
mark_dispensed(tbl, id, at) ==
    IF id \in DOMAIN tbl
    THEN [tbl EXCEPT ![id].status = "DISPENSED", ![id].picked_up_at = Some(at)]
    ELSE tbl

\* Mutant: the status of the row read is not checked.
AlreadyDispensed_Never(p) == FALSE

\* command.py lines 107-108: the row read is already DISPENSED.
AlreadyDispensed(p) == p.status = "DISPENSED"

\* Mutant: a prescription is rejected at the instant it expires.
IsExpired_Inclusive(expires_at, now_utc) ==
    expires_at # None /\ Val(expires_at) <= now_utc

\* command.py lines 110-113: expires_at is set and before now.
IsExpired(expires_at, now_utc) == expires_at # None /\ Val(expires_at) < now_utc

(***************************************************************************)
(* DispensePrescriptionCommand.execute.                                    *)
(***************************************************************************)
Dispense(i) ==
    /\ \E code \in Codes : Begin(i, "d_lookup", [NoLocal EXCEPT !.code = Some(code)])
    /\ UNCHANGED hist

\* lines 103-113: the lookup and the three checks.
DispenseLookup(i) ==
    /\ pc[i] = "d_lookup"
    /\ UNCHANGED hist
    /\ \/ DbFault(i)
       \/ /\ LET p == get_by_pickup_code(prescriptions, Val(local[i].code))
                 mark == [local[i] EXCEPT !.p = p, !.rx = Val(p).id]
             IN  IF p = None
                 THEN Raise(i, "not_found") /\ UNCHANGED now
                 ELSE IF AlreadyDispensed(Val(p))
                 THEN Raise(i, "already_dispensed") /\ UNCHANGED now
                 ELSE IF Val(p).expires_at = None
                 THEN Goto(i, "d_mark", mark) /\ UNCHANGED now
                 ELSE \E now_utc \in now .. MaxTime :
                      /\ ReadClock(now_utc)
                      /\ IF IsExpired(Val(p).expires_at, now_utc)
                         THEN Raise(i, "expired")
                         ELSE Goto(i, "d_mark", mark)
          /\ UNCHANGED <<store, world, faults>>

\* line 115: PrescriptionRepo.mark_dispensed(p.id).
DispenseMark(i) ==
    /\ pc[i] = "d_mark"
    /\ UNCHANGED hist
    /\ \/ DbFault(i)
       \/ /\ \E t \in now .. MaxTime :
                /\ ReadClock(t)
                /\ prescriptions' = mark_dispensed(prescriptions, local[i].rx, t)
          /\ Goto(i, "d_audit", local[i])
          /\ UNCHANGED <<patients, audit_log, patientSeq, rxSeq, world, faults>>

\* lines 117-121: the RX_DISPENSED audit entry.
DispenseAudit(i) ==
    /\ pc[i] = "d_audit"
    /\ UNCHANGED hist
    /\ \/ DbFault(i)
       \/ /\ audit_log' = record_event(audit_log, "RX_DISPENSED",
                 [prescription_id |-> local[i].rx, pickup_code |-> Val(local[i].code)])
          /\ Return(i, None)
          /\ UNCHANGED <<patients, prescriptions, patientSeq, rxSeq, world, now, faults>>

(***************************************************************************)
(* console_cli.action_list_prescriptions: the patient lookup and the       *)
(* listing, both outside any try.  Every way through prints and returns.   *)
(***************************************************************************)
ListPrescriptions(i) ==
    /\ \E hcn \in HealthCards : Begin(i, "ls_lookup", [NoLocal EXCEPT !.hcn = hcn])
    /\ UNCHANGED hist

\* line 145: PatientRepo.get_by_health_card; lines 146-148: no patient.
ListLookup(i) ==
    /\ pc[i] = "ls_lookup"
    /\ UNCHANGED hist
    /\ \/ DbFaultUncaught(i)
       \/ /\ LET patient == get_by_health_card(patients, local[i].hcn)
             IN  IF patient = None
                 THEN Return(i, None)
                 ELSE Goto(i, "ls_list", [local[i] EXCEPT !.patient_id = Val(patient)])
          /\ UNCHANGED <<store, world, now, faults>>

\* lines 150-160: list_prescriptions(patient.id) and the printing.
ListFetch(i) ==
    /\ pc[i] = "ls_list"
    /\ UNCHANGED hist
    /\ \/ DbFaultUncaught(i)
       \/ /\ Return(i, None)
          /\ UNCHANGED <<store, world, now, faults>>

(***************************************************************************)
(* console_cli.action_notify.  NotifierFactory.create() reads              *)
(* HP_NOTIFY_TYPE and is called before the try; the call in the try passes *)
(* (prescription_id, recipient) to notify_prescription_ready(patient,      *)
(* pickup_code, qr_path), which raises TypeError before the method runs.   *)
(***************************************************************************)
NotifyTypes == {"email", "sms", "qr"}

\* NotifierFactory.create: the notifier, or None for the ValueError.
NotifierFactory_create(kind) ==
    IF kind = "email" THEN Some("email")
    ELSE IF kind = "sms" THEN Some("sms")
    ELSE None

Notify(i) ==
    /\ Begin(i, "nt_create", NoLocal)
    /\ UNCHANGED hist

NotifyCreate(i) ==
    /\ pc[i] = "nt_create"
    /\ \E kind \in NotifyTypes :
        IF NotifierFactory_create(kind) = None
        THEN Uncaught(i, "unknown_notifier")
        ELSE Raise(i, "type_error")
    /\ UNCHANGED <<store, world, now, faults, hist>>

(***************************************************************************)
(* PrescriptionRepo.list_dispensed: WHERE status = 'DISPENSED' ORDER BY    *)
(* picked_up_at DESC NULLS LAST, created_at DESC.  The store may return    *)
(* rows that tie on both keys in either order.                             *)
(***************************************************************************)
\* Row a sorts strictly before row b.
SortsBefore(tbl, a, b) ==
    LET pa == tbl[a].picked_up_at
        pb == tbl[b].picked_up_at
    IN  \/ pa # None /\ pb = None
        \/ pa # None /\ pb # None /\ Val(pa) > Val(pb)
        \/ pa = pb /\ tbl[a].created_at > tbl[b].created_at

Orderings(ids) ==
    {s \in [1 .. Cardinality(ids) -> ids] : \A k, l \in DOMAIN s : k # l => s[k] # s[l]}

\* Mutant: ORDER BY picked_up_at ascending.
list_dispensed_Ascending(tbl) ==
    {s \in Orderings({id \in DOMAIN tbl : tbl[id].status = "DISPENSED"}) :
        \A k, l \in DOMAIN s : k < l => ~SortsBefore(tbl, s[k], s[l])}

list_dispensed(tbl) ==
    {s \in Orderings({id \in DOMAIN tbl : tbl[id].status = "DISPENSED"}) :
        \A k, l \in DOMAIN s : k < l => ~SortsBefore(tbl, s[l], s[k])}

(***************************************************************************)
(* console_cli.action_report_dispensed: ReportDispensedCommand.execute in  *)
(* a try, then the printing and the optional CSV export outside it.        *)
(***************************************************************************)
REPORT_CSV_PATH == <<"reports", "dispensed_prescriptions.csv">>

ReportDispensed(i) ==
    /\ Begin(i, "rp_list", NoLocal)
    /\ UNCHANGED hist

\* command.py line 134: self.rows = PrescriptionRepo.list_dispensed().
ReportList(i) ==
    /\ pc[i] = "rp_list"
    /\ UNCHANGED hist
    /\ \/ DbFault(i)
       \/ /\ \E rows \in list_dispensed(prescriptions) :
                Goto(i, "rp_audit", [local[i] EXCEPT !.rows = rows])
          /\ UNCHANGED <<store, world, now, faults>>

\* command.py lines 136-139: the REPORT_DISPENSED_GENERATED entry;
\* console_cli.py lines 208-226: no rows, or the answer to the export prompt.
ReportAudit(i) ==
    /\ pc[i] = "rp_audit"
    /\ UNCHANGED hist
    /\ \/ DbFault(i)
       \/ /\ audit_log' = record_event(audit_log, "REPORT_DISPENSED_GENERATED",
                 [count |-> Len(local[i].rows)])
          /\ \/ Return(i, Some(local[i].rows))
             \/ /\ local[i].rows # <<>>
                /\ pc' = [pc EXCEPT ![i] = "rp_export"]
                /\ result' = [result EXCEPT ![i] = Some(local[i].rows)]
                /\ UNCHANGED <<local, outcome, cmds>>
          /\ UNCHANGED <<patients, prescriptions, patientSeq, rxSeq, world, now, faults>>

\* _export_dispensed_to_csv, lines 27-55: the file is opened for writing and
\* every row written; an OSError is caught nowhere.
ReportExport(i) ==
    /\ pc[i] = "rp_export"
    /\ UNCHANGED hist
    /\ \/ /\ Uncaught(i, "io_error")
          /\ UNCHANGED csv
       \/ /\ csv' = Some(local[i].rows)
          /\ Goto(i, "rp_exported", local[i])
    /\ UNCHANGED <<store, files, fetches, now, faults>>

\* _export_dispensed_to_csv, lines 58-61: the REPORT_DISPENSED_EXPORTED entry.
ReportExportAudit(i) ==
    /\ pc[i] = "rp_exported"
    /\ UNCHANGED hist
    /\ \/ DbFaultUncaught(i)
       \/ /\ audit_log' = record_event(audit_log, "REPORT_DISPENSED_EXPORTED",
                 [path |-> REPORT_CSV_PATH, count |-> Len(local[i].rows)])
          /\ Return(i, result[i])
          /\ UNCHANGED <<patients, prescriptions, patientSeq, rxSeq, world, now, faults>>

Next ==
    \E i \in Procs :
        \/ AddPatient(i)
        \/ RegisterLookup(i)
        \/ RegisterInsert(i)
        \/ AddPatientAudit(i)
        \/ NewPrescription(i)
        \/ NewPrescriptionLookup(i)
        \/ NewPrescriptionInsert(i)
        \/ NewPrescriptionAudit(i)
        \/ GeneratePickupQR(i)
        \/ IssueRead(i)
        \/ IssueFetch(i)
        \/ IssueUpdate(i)
        \/ IssueAudit(i)
        \/ Dispense(i)
        \/ DispenseLookup(i)
        \/ DispenseMark(i)
        \/ DispenseAudit(i)
        \/ ListPrescriptions(i)
        \/ ListLookup(i)
        \/ ListFetch(i)
        \/ Notify(i)
        \/ NotifyCreate(i)
        \/ ReportDispensed(i)
        \/ ReportList(i)
        \/ ReportAudit(i)
        \/ ReportExport(i)
        \/ ReportExportAudit(i)

Spec == Init /\ [][Next]_vars

(***************************************************************************)
(* notifier.EmailNotifier / SMSNotifier.notify_prescription_ready, called  *)
(* as the signature asks, with a Patient, a pickup code and an optional QR *)
(* path: one AuditRepo.record_event, and printing.                         *)
(***************************************************************************)
\* "if not patient.email": None and the empty string are both false.
Falsy(contact) == contact = None \/ contact = Some("")

\* What a Patient's phone or email can be.
ContactValues == {None, Some(""), Some("c")}

\* Mutant: the SMS notifier tests and uses the email, like the email notifier.
NotifierEntry_EmailOnly(kind, patient, pickup_code, qr_path) ==
    IF Falsy(patient.email)
    THEN AuditRow(IF kind = "email" THEN "NOTIFY_EMAIL_SKIPPED" ELSE "NOTIFY_SMS_SKIPPED",
                  [patient_id |-> patient.id,
                   reason |-> IF kind = "email" THEN "no_email" ELSE "no_phone"])
    ELSE AuditRow(IF kind = "email" THEN "NOTIFY_EMAIL" ELSE "NOTIFY_SMS",
                  [patient_id |-> patient.id, to |-> Val(patient.email),
                   pickup_code |-> pickup_code, qr_included |-> ~Falsy(qr_path)])

\* The audit entry the notifier of this kind records.
NotifierEntry(kind, patient, pickup_code, qr_path) ==
    IF kind = "email"
    THEN IF Falsy(patient.email)
         THEN AuditRow("NOTIFY_EMAIL_SKIPPED",
                       [patient_id |-> patient.id, reason |-> "no_email"])
         ELSE AuditRow("NOTIFY_EMAIL",
                       [patient_id |-> patient.id, to |-> Val(patient.email),
                        pickup_code |-> pickup_code, qr_included |-> ~Falsy(qr_path)])
    ELSE IF Falsy(patient.phone)
         THEN AuditRow("NOTIFY_SMS_SKIPPED",
                       [patient_id |-> patient.id, reason |-> "no_phone"])
         ELSE AuditRow("NOTIFY_SMS",
                       [patient_id |-> patient.id, to |-> Val(patient.phone),
                        pickup_code |-> pickup_code, qr_included |-> ~Falsy(qr_path)])

\* A caller holds a notifier of one kind and calls it.
NotifierCall(i) ==
    /\ \E kind \in {"email", "sms"}, phone \in ContactValues, email \in ContactValues,
          pickup_code \in Codes, qr_path \in {None, Some(QrPath(1, "K1"))} :
            Begin(i, "nf_audit",
                  [NoLocal EXCEPT !.kind = kind,
                                  !.patient = Some([id |-> 1, phone |-> phone, email |-> email]),
                                  !.code = Some(pickup_code),
                                  !.qr_path = qr_path])
    /\ UNCHANGED hist

\* The record_event of the method, and its return.
NotifierAudit(i) ==
    /\ pc[i] = "nf_audit"
    /\ UNCHANGED hist
    /\ \/ DbFault(i)
       \/ /\ audit_log' = Append(audit_log,
                 NotifierEntry(local[i].kind, Val(local[i].patient),
                               Val(local[i].code), local[i].qr_path))
          /\ Return(i, None)
          /\ UNCHANGED <<patients, prescriptions, patientSeq, rxSeq, world, now, faults>>

InitNotifier == InitCreated /\ InitIdle

NextNotifier == \E i \in Procs : NotifierCall(i) \/ NotifierAudit(i)

SpecNotifier == InitNotifier /\ [][NextNotifier]_vars

(***************************************************************************)
(* db.db_cursor, statement by statement.  An instance uses the context     *)
(* manager around a body of one or two writes; the body's writes are       *)
(* pending in its connection until the commit.  local[i] is the use:       *)
(*   conn       "none", "open" or "closed";                                *)
(*   pending    the rows the body has written, not yet committed;          *)
(*   wrote      how many statements of the body have run;                  *)
(*   raised     an error has been raised inside the try;                   *)
(*   commits, rollbacks, closes   calls that conn has received, a commit   *)
(*              being counted when it succeeds.                            *)
(* get_connection, conn.cursor, a statement of the body, conn.commit and   *)
(* conn.rollback can each raise.                                           *)
(***************************************************************************)
NoTx == [id |-> 0, conn |-> "none", pending |-> <<>>, wrote |-> 0, raised |-> FALSE,
         commits |-> 0, rollbacks |-> 0, closes |-> 0]

BodyLen == 2      \* statements in the longest body

TxRow(id, n) == AuditRow("TX", [tx |-> id, n |-> n])

\* Mutant: the except clause re-raises without rolling back.
conn_rollback_Skipped(tx) == tx

\* except Exception: conn.rollback() on the open connection.
conn_rollback(tx) == [tx EXCEPT !.rollbacks = @ + 1, !.pending = <<>>]

\* finally: conn.close(); what was not committed is discarded.
conn_close(tx) == [tx EXCEPT !.closes = @ + 1, !.conn = "closed", !.pending = <<>>]

UseCursor(i) ==
    /\ Begin(i, "cx_connect", [NoTx EXCEPT !.id = cmds + 1])
    /\ UNCHANGED hist

\* The use ends: the with statement is left, normally or by the error.
Leave(i, tx) ==
    /\ pc' = [pc EXCEPT ![i] = "menu"]
    /\ local' = [local EXCEPT ![i] = tx]
    /\ outcome' = [outcome EXCEPT ![i] = IF tx.raised THEN "error" ELSE "ok"]
    /\ UNCHANGED <<result, cmds>>

\* line 13: conn = get_connection(), before the try.
CursorConnect(i) ==
    /\ pc[i] = "cx_connect"
    /\ \/ Leave(i, [local[i] EXCEPT !.raised = TRUE])
       \/ Goto(i, "cx_cursor", [local[i] EXCEPT !.conn = "open"])
    /\ UNCHANGED <<store, world, now, faults, hist>>

\* lines 15-16: cur = conn.cursor(...).
CursorOpen(i) ==
    /\ pc[i] = "cx_cursor"
    /\ \/ Goto(i, "cx_except", [local[i] EXCEPT !.raised = TRUE])
       \/ Goto(i, "cx_body", local[i])
    /\ UNCHANGED <<store, world, now, faults, hist>>

\* line 17: yield cur; the body runs a statement, raises, or completes.
CursorBody(i) ==
    /\ pc[i] = "cx_body"
    /\ \/ /\ local[i].wrote < BodyLen
          /\ Goto(i, "cx_body",
                  [local[i] EXCEPT !.wrote = @ + 1,
                        !.pending = Append(@, TxRow(local[i].id, local[i].wrote + 1))])
       \/ Goto(i, "cx_except", [local[i] EXCEPT !.raised = TRUE])
       \/ /\ local[i].wrote > 0
          /\ Goto(i, "cx_commit", local[i])
    /\ UNCHANGED <<store, world, now, faults, hist>>

\* line 18: conn.commit().
CursorCommit(i) ==
    /\ pc[i] = "cx_commit"
    /\ \/ /\ Goto(i, "cx_except", [local[i] EXCEPT !.raised = TRUE])
          /\ UNCHANGED audit_log
       \/ /\ audit_log' = audit_log \o local[i].pending
          /\ Goto(i, "cx_finally", [local[i] EXCEPT !.commits = @ + 1, !.pending = <<>>])
    /\ UNCHANGED <<patients, prescriptions, patientSeq, rxSeq, world, now, faults, hist>>

\* lines 19-21: except Exception: conn.rollback(); raise.  A rollback that
\* raises leaves the transaction to the close.
CursorExcept(i) ==
    /\ pc[i] = "cx_except"
    /\ \/ Goto(i, "cx_finally", conn_rollback(local[i]))
       \/ Goto(i, "cx_finally", [local[i] EXCEPT !.rollbacks = @ + 1])
    /\ UNCHANGED <<store, world, now, faults, hist>>

\* lines 22-23: finally: conn.close().
CursorFinally(i) ==
    /\ pc[i] = "cx_finally"
    /\ Leave(i, conn_close(local[i]))
    /\ UNCHANGED <<store, world, now, faults, hist>>

InitCursor ==
    /\ InitEmpty
    /\ csv = None
    /\ now = 0
    /\ pc = [i \in Procs |-> "menu"]
    /\ local = [i \in Procs |-> NoTx]
    /\ outcome = [i \in Procs |-> "none"]
    /\ result = [i \in Procs |-> None]
    /\ cmds = 0
    /\ faults = 0
    /\ overlap = [r \in RxIds |-> FALSE]

NextCursor ==
    \E i \in Procs :
        \/ UseCursor(i)
        \/ CursorConnect(i)
        \/ CursorOpen(i)
        \/ CursorBody(i)
        \/ CursorCommit(i)
        \/ CursorExcept(i)
        \/ CursorFinally(i)

SpecCursor == InitCursor /\ [][NextCursor]_vars

(***************************************************************************)
(* What the checks below read off a state.                                 *)
(***************************************************************************)
QrEvents(id) ==
    {k \in Events("QR_GENERATED") : audit_log[k].payload.prescription_id = id}

DispensedEvents(id) ==
    {k \in Events("RX_DISPENSED") : audit_log[k].payload.prescription_id = id}

FilesOf(id) == {f \in files : f[2] = id}

Exists(id) == id \in DOMAIN prescriptions

PickupSet(id) ==
    /\ Exists(id)
    /\ prescriptions[id].pickup_code # None
    /\ prescriptions[id].pickup_qr_path # None

\* Instance i takes the step that leaves statement at.
Leaves(i, at) == pc[i] = at /\ pc'[i] # at

\* The step is a store transaction that failed for a transport reason.
Faulted == faults' # faults

AtMenu == \A i \in Procs : pc[i] = "menu"

(***************************************************************************)
(* C1.  Issuance is idempotent.  As long as the issuance calls for a       *)
(* prescription have run one after the other, all of them that return      *)
(* return the same (pickup_code, qr_path) pair, and when the first of them *)
(* succeeded there is exactly one GET and one QR_GENERATED entry for the   *)
(* prescription, however many calls followed.  A call that reads a row     *)
(* with both fields set takes the fast path: it ends at the read, returns  *)
(* the stored pair, sends no GET, writes no file, changes no row and       *)
(* appends no audit entry.                                                 *)
(***************************************************************************)
C1_OneIssue ==
    \A id \in RxIds :
        ~overlap[id] =>
            /\ Cardinality(returned[id]) <= 1
            /\ firstCall[id] = "ok" =>
                /\ fetches[id].sent = 1
                /\ Cardinality(QrEvents(id)) = 1

C1_FastPath ==
    \A i \in Procs :
        Leaves(i, "qr_read") /\ PickupSet(local[i].rx) =>
            /\ pc'[i] = "menu"
            /\ ~Faulted =>
                /\ outcome'[i] = "ok"
                /\ result'[i] = Some(<<Val(prescriptions[local[i].rx].pickup_code),
                                       Val(prescriptions[local[i].rx].pickup_qr_path)>>)
            /\ UNCHANGED <<prescriptions, audit_log, fetches, files>>

C1_Idempotent == [](C1_OneIssue) /\ [][C1_FastPath]_vars

\* Two calls in a row, by the two instances: the first fetched and stored K2,
\* the second returned the same pair from the fast path.
C1_Witness ==
    \E id \in RxIds :
        /\ AtMenu
        /\ ~overlap[id] /\ firstCall[id] = "ok"
        /\ fetches[id].sent = 1
        /\ Cardinality(QrEvents(id)) = 1
        /\ \A i \in Procs :
            outcome[i] = "ok" /\ result[i] = Some(<<"K2", QrPath(id, "K2")>>)

(***************************************************************************)
(* C2.  As stated (also for calls interleaved from concurrent instances):  *)
(* at most one pickup code is ever stored for a prescription and at most   *)
(* one QR image file is ever written for it.                               *)
(***************************************************************************)
C2_AtMostOneEver ==
    \A id \in RxIds :
        /\ Cardinality(stored[id]) <= 1
        /\ Cardinality(FilesOf(id)) <= 1

(***************************************************************************)
(* C2, amended.  As long as the issuance calls for a prescription have run *)
(* one after the other, at most one pickup code is ever stored for it, and *)
(* once its code is stored no further QR image file is written for it.     *)
(***************************************************************************)
C2_OneCodeStored ==
    \A id \in RxIds : ~overlap[id] => Cardinality(stored[id]) <= 1

C2_NoFileAfterStore ==
    \A id \in RxIds :
        ~overlap[id] /\ PickupSet(id) => {f \in files' : f[2] = id} = FilesOf(id)

C2_Sequential == [](C2_OneCodeStored) /\ [][C2_NoFileAfterStore]_vars

\* A call that failed at the fetch, then a call that stored a code: one code.
C2_Witness ==
    \E id \in RxIds :
        /\ AtMenu
        /\ ~overlap[id]
        /\ fetches[id] = [sent |-> 2, failed |-> 1]
        /\ Cardinality(stored[id]) = 1
        /\ PickupSet(id)

(***************************************************************************)
(* C3.  A failed QR fetch (error status, transport error, timeout) ends    *)
(* the call with the fetch error: no row is changed and no audit entry is  *)
(* appended, and, the calls for the prescription having run one after the  *)
(* other, its pickup_code and pickup_qr_path are both still null.          *)
(***************************************************************************)
C3_Step ==
    \A i \in Procs :
        LET id == local[i].rx
        IN  Leaves(i, "qr_fetch") /\ fetches'[id].failed # fetches[id].failed =>
                /\ pc'[i] = "menu"
                /\ outcome'[i] = "qr_failed"
                /\ UNCHANGED <<prescriptions, audit_log, files>>
                /\ ~overlap[id] /\ Exists(id) =>
                    /\ prescriptions'[id].pickup_code = None
                    /\ prescriptions'[id].pickup_qr_path = None

C3_FetchFailure == [][C3_Step]_vars

\* A call has failed at the fetch and left the row without code and path.
C3_Witness ==
    \E id \in RxIds, i \in Procs :
        /\ outcome[i] = "qr_failed"
        /\ fetches[id].failed = 1
        /\ Exists(id) /\ ~overlap[id]
        /\ prescriptions[id].pickup_code = None
        /\ prescriptions[id].pickup_qr_path = None
        /\ QrEvents(id) = {}

(***************************************************************************)
(* C4.  In every state, every prescription has pickup_code and             *)
(* pickup_qr_path both set or both null.                                   *)
(***************************************************************************)
C4_BothOrNeither ==
    \A id \in DOMAIN prescriptions :
        (prescriptions[id].pickup_code = None) <=> (prescriptions[id].pickup_qr_path = None)

\* A prescription issued with K2 in this session, then dispensed.
C4_Witness ==
    \E id \in DOMAIN prescriptions :
        /\ prescriptions[id].pickup_code = Some("K2")
        /\ prescriptions[id].pickup_qr_path = Some(QrPath(id, "K2"))
        /\ prescriptions[id].status = "DISPENSED"

(***************************************************************************)
(* C5.  A dispense command whose lookup finds a DISPENSED prescription     *)
(* under its pickup code ends there with the 'already dispensed' error (or *)
(* with the store's error when the lookup itself could not run): status    *)
(* and picked_up_at are unchanged and no audit entry is appended.          *)
(***************************************************************************)
Holds(id, code) == Exists(id) /\ prescriptions[id].pickup_code = code

C5_Step ==
    \A i \in Procs :
        /\ Leaves(i, "d_lookup")
        /\ \E id \in RxIds :
                Holds(id, local[i].code) /\ prescriptions[id].status = "DISPENSED"
        => /\ pc'[i] = "menu"
           /\ outcome'[i] = IF Faulted THEN "db_error" ELSE "already_dispensed"
           /\ UNCHANGED <<prescriptions, audit_log>>

C5_AlreadyDispensed == [][C5_Step]_vars

\* A second dispense of a dispensed prescription has been refused.
C5_Witness ==
    \E i \in Procs, id \in RxIds :
        /\ outcome[i] = "already_dispensed"
        /\ Exists(id)
        /\ prescriptions[id].status = "DISPENSED"
        /\ prescriptions[id].picked_up_at # None
        /\ Cardinality(DispensedEvents(id)) = 1

(***************************************************************************)
(* C6.  Each prescription is dispensed at most once, also under            *)
(* interleaved dispense commands: picked_up_at, once written, is never     *)
(* written again, a DISPENSED row stays DISPENSED, and at most one         *)
(* RX_DISPENSED entry is appended for the prescription.                    *)
(***************************************************************************)
C6_OneEntry == \A id \in RxIds : Cardinality(DispensedEvents(id)) <= 1

C6_WrittenOnce ==
    \A id \in DOMAIN prescriptions :
        prescriptions[id].status = "DISPENSED" =>
            /\ prescriptions'[id].status = "DISPENSED"
            /\ prescriptions'[id].picked_up_at = prescriptions[id].picked_up_at
            /\ \A i \in Procs : ~(Leaves(i, "d_mark") /\ local[i].rx = id)

C6_DispensedOnce == [](C6_OneEntry) /\ [][C6_WrittenOnce]_vars

(***************************************************************************)
(* C7.  A dispense command whose lookup finds an ACTIVE prescription is    *)
(* refused with the 'expired' error exactly when expires_at is set and     *)
(* strictly before the clock reading of the check; the refusal changes no  *)
(* row (status stays ACTIVE, picked_up_at null) and appends no audit       *)
(* entry.  With expires_at equal to the reading, or null, the command goes *)
(* on to mark_dispensed.                                                   *)
(***************************************************************************)
C7_Step ==
    \A i \in Procs, id \in RxIds :
        /\ Leaves(i, "d_lookup") /\ ~Faulted
        /\ Holds(id, local[i].code) /\ prescriptions[id].status = "ACTIVE"
        => IF /\ prescriptions[id].expires_at # None
              /\ Val(prescriptions[id].expires_at) < now'
           THEN /\ pc'[i] = "menu"
                /\ outcome'[i] = "expired"
                /\ UNCHANGED <<prescriptions, audit_log>>
                /\ prescriptions'[id].picked_up_at = None
           ELSE /\ pc'[i] = "d_mark"
                /\ local'[i].rx = id

C7_Expired == [][C7_Step]_vars

\* One instance passed the check at the instant of expiry and is about to
\* mark; the other came later and was refused; the row is still ACTIVE.
C7_Witness ==
    \E i, j \in Procs, id \in RxIds :
        /\ pc[i] = "d_mark" /\ local[i].rx = id
        /\ outcome[j] = "expired"
        /\ Exists(id)
        /\ prescriptions[id].expires_at = Some(0)
        /\ now = 1
        /\ prescriptions[id].status = "ACTIVE"
        /\ prescriptions[id].picked_up_at = None
        /\ DispensedEvents(id) = {}

(***************************************************************************)
(* C8.  A dispense command with a pickup code that no prescription holds   *)
(* ends at the lookup with the 'not found' error (or the store's error     *)
(* when the lookup could not run); no row is changed and no audit entry    *)
(* is appended.                                                            *)
(***************************************************************************)
C8_Step ==
    \A i \in Procs :
        /\ Leaves(i, "d_lookup")
        /\ \A id \in RxIds : ~Holds(id, local[i].code)
        => /\ pc'[i] = "menu"
           /\ outcome'[i] = IF Faulted THEN "db_error" ELSE "not_found"
           /\ UNCHANGED <<prescriptions, audit_log>>

C8_NotFound == [][C8_Step]_vars

\* An unknown code was refused while a prescription with another code exists.
C8_Witness ==
    \E i \in Procs, id \in RxIds :
        /\ outcome[i] = "not_found"
        /\ Holds(id, Some("K1"))
        /\ \A other \in RxIds : ~Holds(other, Some("K2"))
        /\ Events("RX_DISPENSED") = {}

(***************************************************************************)
(* C9.  No two patients ever share a health card number.  A registration   *)
(* that reaches its lookup or its insert when the number is registered     *)
(* ends there with a duplicate error (the service's at the lookup, the     *)
(* store's unique violation at the insert; the store's error when the      *)
(* transaction could not run): no row is added and no audit entry          *)
(* appended.                                                               *)
(***************************************************************************)
Registered(hcn) ==
    \E id \in DOMAIN patients : _hcn_from_hex(patients[id].health_card_no) = hcn

C9_Unique ==
    \A a, b \in DOMAIN patients :
        a # b => /\ patients[a].health_card_no # patients[b].health_card_no
                 /\ _hcn_from_hex(patients[a].health_card_no)
                        # _hcn_from_hex(patients[b].health_card_no)

C9_Step ==
    \A i \in Procs :
        /\ Leaves(i, "ap_lookup") \/ Leaves(i, "ap_insert")
        /\ Registered(local[i].hcn)
        => /\ pc'[i] = "menu"
           /\ outcome'[i] = IF Faulted THEN "db_error"
                            ELSE IF pc[i] = "ap_lookup" THEN "duplicate"
                            ELSE "unique_violation"
           /\ patients' = patients
           /\ audit_log' = audit_log

C9_NoDuplicatePatient == [](C9_Unique) /\ [][C9_Step]_vars

\* Two registrations of one number raced: one row, one entry, one refusal.
C9_Witness ==
    \E i, j \in Procs :
        /\ outcome[i] = "ok"
        /\ outcome[j] = "unique_violation"
        /\ Cardinality(DOMAIN patients) = 1
        /\ prescriptions = <<>>
        /\ Cardinality(Events("PATIENT_CREATED")) = 1

(***************************************************************************)
(* C10.  No two prescriptions ever hold the same pickup code.  An          *)
(* issuance call that reaches its update with a code another prescription  *)
(* holds ends there with the store's unique violation: it is not retried,  *)
(* no row is changed, no audit entry is appended, and (the calls for the   *)
(* prescription having run one after the other) its pickup_code and        *)
(* pickup_qr_path are still null.                                          *)
(***************************************************************************)
C10_Unique ==
    \A a, b \in DOMAIN prescriptions :
        a # b /\ prescriptions[a].pickup_code # None =>
            prescriptions[a].pickup_code # prescriptions[b].pickup_code

C10_Step ==
    \A i \in Procs :
        LET id == local[i].rx
        IN  /\ Leaves(i, "qr_update")
            /\ Exists(id)
            /\ \E other \in RxIds : other # id /\ Holds(other, local[i].code)
            => /\ pc'[i] = "menu"
               /\ outcome'[i] = IF Faulted THEN "db_error" ELSE "unique_violation"
               /\ UNCHANGED <<prescriptions, audit_log>>
               /\ ~overlap[id] =>
                    /\ prescriptions'[id].pickup_code = None
                    /\ prescriptions'[id].pickup_qr_path = None

C10_UniquePickupCode == [](C10_Unique) /\ [][C10_Step]_vars

\* The second prescription drew the code of the first and was refused.
C10_Witness ==
    \E i \in Procs :
        /\ outcome[i] = "unique_violation"
        /\ Holds(1, Some("K1"))
        /\ Exists(2)
        /\ fetches[2].sent = 1
        /\ prescriptions[2].pickup_code = None
        /\ prescriptions[2].pickup_qr_path = None
        /\ QrEvents(2) = {}

(***************************************************************************)
(* C11.  In every state a DISPENSED prescription has picked_up_at set and  *)
(* an ACTIVE one has it null; a step that changes the status or the        *)
(* picked_up_at of a prescription is the dispense update of a command      *)
(* dispensing that prescription, and leaves it DISPENSED with picked_up_at *)
(* set.                                                                    *)
(***************************************************************************)
C11_Together ==
    \A id \in DOMAIN prescriptions :
        /\ prescriptions[id].status \in {"ACTIVE", "DISPENSED"}
        /\ prescriptions[id].status = "DISPENSED" <=> prescriptions[id].picked_up_at # None

C11_Step ==
    \A id \in DOMAIN prescriptions :
        \/ /\ prescriptions'[id].status = prescriptions[id].status
           /\ prescriptions'[id].picked_up_at = prescriptions[id].picked_up_at
        \/ /\ \E i \in Procs : Leaves(i, "d_mark") /\ local[i].rx = id
           /\ prescriptions'[id].status = "DISPENSED"
           /\ prescriptions'[id].picked_up_at = Some(now')

C11_StatusAndPickedUp == [](C11_Together) /\ [][C11_Step]_vars

\* One prescription dispensed in this session, another still ACTIVE.
C11_Witness ==
    \E a, b \in DOMAIN prescriptions :
        /\ prescriptions[a].status = "DISPENSED"
        /\ prescriptions[a].picked_up_at = Some(1)
        /\ prescriptions[b].status = "ACTIVE"
        /\ prescriptions[b].picked_up_at = None

(***************************************************************************)
(* C12.  Whenever no command is in progress, every committed state change  *)
(* has its audit entry, also after a failed audit insert: each patient a   *)
(* PATIENT_CREATED entry, each prescription an RX_CREATED entry, each      *)
(* prescription with a pickup code a QR_GENERATED entry for that code,     *)
(* each DISPENSED prescription an RX_DISPENSED entry.                      *)
(***************************************************************************)
C12_Audited ==
    AtMenu =>
        /\ \A id \in DOMAIN patients :
                \E k \in Events("PATIENT_CREATED") : audit_log[k].payload.patient_id = id
        /\ \A id \in DOMAIN prescriptions :
                /\ \E k \in Events("RX_CREATED") :
                        audit_log[k].payload.prescription_id = id
                /\ prescriptions[id].pickup_code # None =>
                        \E k \in QrEvents(id) :
                            Some(audit_log[k].payload.pickup_code) = prescriptions[id].pickup_code
                /\ prescriptions[id].status = "DISPENSED" => DispensedEvents(id) # {}

(***************************************************************************)
(* C13.  No failure of a menu action terminates the process: whatever      *)
(* error an action raises (an unsupported notifier type, a store failure   *)
(* while listing, a failure of the CSV export), the instance is back at    *)
(* its menu.                                                               *)
(***************************************************************************)
C13_NeverTerminated == \A i \in Procs : pc[i] # "terminated"

(***************************************************************************)
(* C15.  The list read of ReportDispensedCommand yields each prescription  *)
(* that is DISPENSED at the read exactly once and no other, later          *)
(* picked_up_at first, null picked_up_at last, later created_at first      *)
(* among equal picked_up_at.  The audit step of an invocation that         *)
(* completes appends exactly one REPORT_DISPENSED_GENERATED entry whose    *)
(* count is the number of rows, and the command returns those rows.  No    *)
(* step of the report changes a patient or a prescription.                 *)
(***************************************************************************)
C15_Ordered(rows) ==
    \A k, l \in DOMAIN rows :
        k < l =>
            LET a == prescriptions[rows[k]]
                b == prescriptions[rows[l]]
            IN  /\ a.picked_up_at = None => b.picked_up_at = None
                /\ a.picked_up_at # None /\ b.picked_up_at # None =>
                        Val(a.picked_up_at) >= Val(b.picked_up_at)
                /\ a.picked_up_at = b.picked_up_at => a.created_at >= b.created_at

C15_Step ==
    \A i \in Procs :
        /\ pc[i] \in {"rp_list", "rp_audit", "rp_export", "rp_exported"} /\ pc'[i] # pc[i] =>
                UNCHANGED <<patients, prescriptions>>
        /\ Leaves(i, "rp_list") /\ ~Faulted =>
                LET rows == local'[i].rows
                IN  /\ pc'[i] = "rp_audit"
                    /\ {rows[k] : k \in DOMAIN rows} =
                            {id \in DOMAIN prescriptions :
                                prescriptions[id].status = "DISPENSED"}
                    /\ \A k, l \in DOMAIN rows : k # l => rows[k] # rows[l]
                    /\ C15_Ordered(rows)
                    /\ audit_log' = audit_log
        /\ Leaves(i, "rp_audit") /\ ~Faulted =>
                /\ audit_log' = Append(audit_log,
                        AuditRow("REPORT_DISPENSED_GENERATED",
                                 [count |-> Len(local[i].rows)]))
                /\ result'[i] = Some(local[i].rows)
        /\ (Leaves(i, "rp_list") \/ Leaves(i, "rp_audit")) /\ Faulted =>
                audit_log' = audit_log /\ outcome'[i] = "db_error"

C15_Report == [][C15_Step]_vars

\* A report of two dispensed prescriptions, the one picked up later first,
\* returned, audited and then exported.
C15_Witness ==
    /\ csv = Some(<<2, 1>>)
    /\ prescriptions[1].picked_up_at = Some(0)
    /\ prescriptions[2].picked_up_at = Some(1)
    /\ \E k \in Events("REPORT_DISPENSED_GENERATED") : audit_log[k].payload.count = 2
    /\ \E i \in Procs : pc[i] = "rp_exported" /\ result[i] = csv

(***************************************************************************)
(* C17.  Every QR_GENERATED entry, when it is appended, and every pair an  *)
(* issuance call returns, when it returns, names a prescription that       *)
(* exists and whose stored pickup_code and pickup_qr_path are the audited, *)
(* respectively returned, values; a call for a prescription id that does   *)
(* not exist sends no GET, appends no entry and returns no pair.           *)
(***************************************************************************)
C17_Step ==
    \A i \in Procs :
        LET id == local[i].rx
        IN  /\ Leaves(i, "qr_fetch") => Exists(id)
            /\ Leaves(i, "qr_audit") /\ audit_log' # audit_log =>
                    LET e == audit_log'[Len(audit_log')].payload
                    IN  /\ Exists(id)
                        /\ e.prescription_id = id
                        /\ prescriptions'[id].pickup_code = Some(e.pickup_code)
                        /\ prescriptions'[id].pickup_qr_path = Some(e.path)
            /\ pc[i] \in QrPcs /\ pc'[i] = "menu" /\ outcome'[i] = "ok" =>
                    /\ Exists(id)
                    /\ result'[i] # None
                    /\ prescriptions'[id].pickup_code = Some(Val(result'[i])[1])
                    /\ prescriptions'[id].pickup_qr_path = Some(Val(result'[i])[2])

C17_IssuedForExisting == [][C17_Step]_vars

(***************************************************************************)
(* C18.  No prescription is recorded as picked up after its expiry: every  *)
(* DISPENSED prescription with expires_at set has picked_up_at not later   *)
(* than expires_at.                                                        *)
(***************************************************************************)
C18_NotAfterExpiry ==
    \A id \in DOMAIN prescriptions :
        /\ prescriptions[id].status = "DISPENSED"
        /\ prescriptions[id].expires_at # None
        /\ prescriptions[id].picked_up_at # None
        => Val(prescriptions[id].picked_up_at) <= Val(prescriptions[id].expires_at)

(***************************************************************************)
(* C14.  A notify_prescription_ready call of the email or SMS notifier     *)
(* appends exactly one audit entry and returns without error: the          *)
(* NOTIFY_EMAIL_SKIPPED / NOTIFY_SMS_SKIPPED entry when the patient's      *)
(* email / phone is absent (null or empty), otherwise the NOTIFY_EMAIL /   *)
(* NOTIFY_SMS entry carrying that email / phone and the pickup code; no    *)
(* patient or prescription is changed.  (A call whose audit insert cannot  *)
(* run appends nothing and raises the store's error.)                      *)
(***************************************************************************)
C14_Step ==
    \A i \in Procs :
        Leaves(i, "nf_audit") =>
            LET patient == Val(local[i].patient)
                channel == IF local[i].kind = "email" THEN patient.email ELSE patient.phone
                tag == IF local[i].kind = "email" THEN "NOTIFY_EMAIL" ELSE "NOTIFY_SMS"
                absent == channel = None \/ channel = Some("")
            IN  /\ pc'[i] = "menu"
                /\ UNCHANGED <<patients, prescriptions>>
                /\ IF Faulted
                   THEN audit_log' = audit_log /\ outcome'[i] = "db_error"
                   ELSE /\ outcome'[i] = "ok"
                        /\ Len(audit_log') = Len(audit_log) + 1
                        /\ SubSeq(audit_log', 1, Len(audit_log)) = audit_log
                        /\ LET e == audit_log'[Len(audit_log')]
                           IN  /\ e.payload.patient_id = patient.id
                               /\ IF absent
                                  THEN e.event_type =
                                        (IF local[i].kind = "email" THEN "NOTIFY_EMAIL_SKIPPED"
                                         ELSE "NOTIFY_SMS_SKIPPED")
                                  ELSE /\ e.event_type = tag
                                       /\ Some(e.payload.to) = channel
                                       /\ Some(e.payload.pickup_code) = local[i].code

RowsOf(id) == {k \in 1 .. Len(audit_log) : audit_log[k].payload.tx = id}

C16_Outcome ==
    \A i \in Procs :
        LET tx == local[i]
        IN  /\ pc[i] = "menu" /\ tx.conn = "closed" =>
                /\ tx.closes = 1
                /\ tx.pending = <<>>
                /\ \/ /\ ~tx.raised /\ outcome[i] = "ok"
                      /\ tx.commits = 1 /\ tx.rollbacks = 0
                      /\ tx.wrote > 0
                      /\ \A n \in 1 .. tx.wrote :
                            \E k \in RowsOf(tx.id) : audit_log[k].payload.n = n
                      /\ Cardinality(RowsOf(tx.id)) = tx.wrote
                   \/ /\ tx.raised /\ outcome[i] = "error"
                      /\ tx.commits = 0 /\ tx.rollbacks = 1
                      /\ RowsOf(tx.id) = {}
            /\ pc[i] = "menu" /\ tx.conn = "none" /\ tx.id # 0 =>
                /\ tx.raised /\ outcome[i] = "error"
                /\ tx.commits = 0 /\ tx.rollbacks = 0 /\ tx.closes = 0
                /\ RowsOf(tx.id) = {}
            /\ pc[i] # "menu" /\ tx.commits = 0 => RowsOf(tx.id) = {}
            /\ pc[i] # "menu" => tx.closes = 0

C16_Step ==
    \/ audit_log' = audit_log
    \/ \E i \in Procs :
            /\ Leaves(i, "cx_commit")
            /\ ~local[i].raised
            /\ pc'[i] = "cx_finally"
            /\ audit_log' = audit_log \o local[i].pending
            /\ Len(local[i].pending) = local[i].wrote

C16_OneOutcome == [](C16_Outcome) /\ [][C16_Step]_vars

\* One use committed its two writes; the other wrote one row, then its body
\* raised: rolled back, closed, and its row is not in the store.
C16_Witness ==
    \E i, j \in Procs :
        /\ pc[i] = "menu" /\ outcome[i] = "ok"
        /\ local[i].wrote = 2 /\ local[i].commits = 1 /\ local[i].closes = 1
        /\ pc[j] = "menu" /\ outcome[j] = "error"
        /\ local[j].wrote = 1 /\ local[j].rollbacks = 1 /\ local[j].closes = 1
        /\ Len(audit_log) = 2
        /\ RowsOf(local[j].id) = {}

====
